---- MODULE Spec2Model ----
(***************************************************************************)
(* Model of the animation subsystem of hnd2/bevy-jam                       *)
(* (src/src/animation/mod.rs): Aseprite::new, which turns an Aseprite      *)
(* export into ordered frames and named clips, and the playback state of   *)
(* one AnimationSprite driven by set_animation and                         *)
(* animation_sprite_system.                                                *)
(*                                                                         *)
(* Time is kept in microseconds: one f32 second of the source is Second    *)
(* units.  Frame names are sequences of one-character strings.             *)
(***************************************************************************)
EXTENDS Integers, Sequences, FiniteSets, TLC

\* ------------------------------------------------------------------ bounds

\* Largest number of entries of data.frames in the exports of SpecParse.
MaxFrames == 3

\* Tags of SpecParse have from and to in -1 .. MaxTag.
MaxTag == 3

\* ------------------------------------------------------------- sequences

\* Option<T>: None is the empty sequence and Some(x) the sequence of x alone.
None == <<>>

Some(x) == <<x>>

Unwrap(o) == o[1]

Min(a, b) == IF a < b THEN a ELSE b

Max(a, b) == IF a < b THEN b ELSE a

\* Every ordering of the elements of the finite set S.
Orderings(S) ==
    {o \in [1..Cardinality(S) -> S] : \A i, j \in 1..Cardinality(S) : o[i] = o[j] => i = j}

\* ------------------------------------------------------------ frame names

Digits == {"0", "1", "2", "3", "4", "5", "6", "7", "8", "9"}

DigitValue(c) ==
    CASE c = "0" -> 0 [] c = "1" -> 1 [] c = "2" -> 2 [] c = "3" -> 3 [] c = "4" -> 4
      [] c = "5" -> 5 [] c = "6" -> 6 [] c = "7" -> 7 [] c = "8" -> 8 [] c = "9" -> 9

\* The literal text "aseprite" of the regex.
Ext == <<"a", "s", "e", "p", "r", "i", "t", "e">>

AllDigits(s) == \A i \in DOMAIN s : s[i] \in Digits

\* Whether  \D(\d+).aseprite  matches s with \D at position p and d digits:
\* the unescaped dot of the regex stands for any one character.
MatchesAt(s, p, d) ==
    /\ p >= 1
    /\ d >= 1
    /\ p + d + 1 + Len(Ext) <= Len(s)
    /\ s[p] \notin Digits
    /\ AllDigits(SubSeq(s, p + 1, p + d))
    /\ SubSeq(s, p + d + 2, p + d + 1 + Len(Ext)) = Ext

\* re.replace(key, "$1") for the regex  .*\D(\d+).aseprite : the leftmost match
\* starts at the first character (.* absorbs any prefix), the greedy .* puts \D
\* as far right as a match allows, and the greedy \d+ then takes as many digits
\* as a match allows.  The match is replaced by its group; the text after the
\* match stays.  A key that does not match is returned as it is.
RegexReplace(key) ==
    LET ps == {p \in 1..Len(key) : \E d \in 1..Len(key) : MatchesAt(key, p, d)}
    IN  IF ps = {} THEN key
        ELSE LET p == CHOOSE q \in ps : \A r \in ps : r <= q
                 ds == {d \in 1..Len(key) : MatchesAt(key, p, d)}
                 d == CHOOSE e \in ds : \A f \in ds : f <= e
             IN  SubSeq(key, p + 1, p + d) \o SubSeq(key, p + d + 2 + Len(Ext), Len(key))

RECURSIVE DecimalValue(_)
DecimalValue(s) ==
    IF s = <<>> THEN 0
    ELSE 10 * DecimalValue(SubSeq(s, 1, Len(s) - 1)) + DigitValue(s[Len(s)])

\* usize::from_str_radix(text, 10): an optional leading "+", then one or more
\* decimal digits; anything else is an Err.  The result is the Option that
\* .ok() makes of it.
FromStrRadix(text) ==
    LET body == IF text # <<>> /\ text[1] = "+" THEN Tail(text) ELSE text
    IN  IF body # <<>> /\ AllDigits(body) THEN Some(DecimalValue(body)) ELSE None

\* ------------------------------------------------------------ the export

\* What one unit of the model's time is worth: an f32 second is Second units.
Second == 1000000

\* Frame names as Aseprite writes them ("{title} {frame}.{extension}"), two
\* names that carry the same number, and names the regex does not reduce to a
\* number.
Name0 == <<"c", " ", "0", ".">> \o Ext

Name1 == <<"c", " ", "1", ".">> \o Ext

Name2 == <<"c", " ", "2", ".">> \o Ext

Name01 == <<"c", " ", "0", "1", ".">> \o Ext

NameNoNumber == <<"c", ".">> \o Ext

\* A name that is a number and the extension, with no title before the number.
NameOnlyNumber == <<"1", "2", ".">> \o Ext

NamePool == {Name0, Name1, Name2, Name01, NameNoNumber, NameOnlyNumber}

\* data::FrameValue of a frame: its rect in the sheet and its duration in
\* milliseconds.  Every name of the pool has its own rect and duration, so the
\* order of two frames shows in the parsed sheet.
FrameValueOf(name, uniform) ==
    LET k == CASE name = Name0 -> 0 [] name = Name1 -> 1 [] name = Name2 -> 2
               [] name = Name01 -> 3 [] name = NameNoNumber -> 4 [] OTHER -> 5
    IN  [frame |-> [x |-> 16 * k, y |-> 0, w |-> 16, h |-> 24],
         duration |-> IF uniform THEN 100 ELSE 40 + 60 * k]

\* data::AsepriteData, the part Aseprite::new reads: frames is the HashMap from
\* frame name to FrameValue, frame_tags the list of data::FrameTag.
AsepriteData(names, uniform, tags) ==
    [frames |-> [n \in names |-> FrameValueOf(n, uniform)],
     meta |-> [frame_tags |-> tags]]

\* ---------------------------------------------------------- Aseprite::new

\* `index as usize` of an i64: a negative index wraps to a value above every
\* Vec's length.  UsizeMax stands for usize::MAX within TLC's integers.
UsizeMax == 2147483647

AsUsize(i) == IF i >= 0 THEN i ELSE UsizeMax + (i + 1)

\* Vec::get.
Get(vec, i) == IF i < Len(vec) THEN Some(vec[i + 1]) ELSE None

\* The filter_map of lines 92-96 over the HashMap in its iteration order:
\* (index, value) for every key whose replaced text parses as a usize.
RECURSIVE KeyedFrames(_, _)
KeyedFrames(data, order) ==
    IF order = <<>> THEN <<>>
    ELSE LET index == FromStrRadix(RegexReplace(Head(order)))
             rest == KeyedFrames(data, Tail(order))
         IN  IF index = None THEN rest
             ELSE <<[index |-> Unwrap(index), value |-> data.frames[Head(order)]]>> \o rest

\* Insert e into the sorted sequence s after every element whose index is not
\* larger: the step of a stable sort.
RECURSIVE InsertStable(_, _)
InsertStable(s, e) ==
    IF s = <<>> THEN <<e>>
    ELSE IF s[Len(s)].index <= e.index THEN Append(s, e)
         ELSE Append(InsertStable(SubSeq(s, 1, Len(s) - 1), e), s[Len(s)])

\* frames.sort_by(|a, b| a.0.cmp(&b.0)): Rust's sort_by is stable.
RECURSIVE SortByIndex(_)
SortByIndex(s) ==
    IF s = <<>> THEN <<>>
    ELSE InsertStable(SortByIndex(SubSeq(s, 1, Len(s) - 1)), s[Len(s)])

\* The local `frames` of Aseprite::new: the values in sorted order.
SortedFrames(data, order) ==
    LET sorted == SortByIndex(KeyedFrames(data, order))
    IN  [i \in DOMAIN sorted |-> sorted[i].value]

\* The rect of each frame: min = (x, y), max = min + (w, h).
Rects(frames) ==
    [i \in DOMAIN frames |->
        [min |-> <<frames[i].frame.x, frames[i].frame.y>>,
         max |-> <<frames[i].frame.x + frames[i].frame.w,
                   frames[i].frame.y + frames[i].frame.h>>]]

\* Mutant of ClipFrames: the range tag.from..tag.to without its upper end.
RECURSIVE ClipFramesExclusive(_, _, _)
ClipFramesExclusive(frames, from, to) ==
    IF from >= to THEN <<>>
    ELSE LET frame == Get(frames, AsUsize(from))
             rest == ClipFramesExclusive(frames, from + 1, to)
         IN  IF frame = None THEN rest
             ELSE <<[index |-> AsUsize(from),
                     duration |-> (Unwrap(frame).duration * Second) \div 1000]>> \o rest

\* The frames of the clip of one tag: (tag.from..=tag.to) filtered by
\* frames.get(index as usize); the duration is milliseconds / 1000.0 seconds.
RECURSIVE ClipFrames(_, _, _)
ClipFrames(frames, from, to) ==
    IF from > to THEN <<>>
    ELSE LET frame == Get(frames, AsUsize(from))
             rest == ClipFrames(frames, from + 1, to)
         IN  IF frame = None THEN rest
             ELSE <<[index |-> AsUsize(from),
                     duration |-> (Unwrap(frame).duration * Second) \div 1000]>> \o rest

\* collect::<HashMap<_, _>>() of the (name, Animation) pairs: of two tags with
\* one name the later one stays.
Animations(tags, frames) ==
    LET names == {tags[i].name : i \in DOMAIN tags}
        last(n) == CHOOSE i \in DOMAIN tags :
                      /\ tags[i].name = n
                      /\ \A j \in DOMAIN tags : tags[j].name = n => j <= i
    IN  [n \in names |->
            [name |-> n, frames |-> ClipFrames(frames, tags[last(n)].from, tags[last(n)].to)]]

\* Aseprite::new; `frames` is its local of that name, kept beside the fields.
AsepriteNew(data, order) ==
    LET frames == SortedFrames(data, order)
    IN  [data |-> data,
         frames |-> frames,
         rects |-> Rects(frames),
         animations |-> Animations(data.meta.frame_tags, frames)]

\* ------------------------------------------------------------------ Timer

\* Timer::new(Duration::from_secs(0), false): a non-repeating bevy Timer.
TimerNew ==
    [duration |-> 0, elapsed |-> 0, finished |-> FALSE, times_finished |-> 0]

\* Mutant of TimerTick: the tick of a repeating timer, which starts over when
\* it finishes.
TimerTickRepeating(timer, delta) ==
    IF timer.elapsed + delta >= timer.duration
    THEN [timer EXCEPT !.elapsed = IF timer.duration = 0 THEN 0
                                   ELSE (timer.elapsed + delta) % timer.duration,
                       !.finished = TRUE, !.times_finished = 1]
    ELSE [timer EXCEPT !.elapsed = timer.elapsed + delta, !.finished = FALSE,
                       !.times_finished = 0]

\* Timer::tick of a non-repeating, unpaused timer: a finished timer only
\* clears times_finished; otherwise the elapsed time grows by delta and, once
\* it reaches the duration, is clamped to it and the timer finishes.
TimerTick(timer, delta) ==
    IF timer.finished THEN [timer EXCEPT !.times_finished = 0]
    ELSE IF timer.elapsed + delta >= timer.duration
         THEN [timer EXCEPT !.elapsed = timer.duration, !.finished = TRUE,
                            !.times_finished = 1]
         ELSE [timer EXCEPT !.elapsed = timer.elapsed + delta, !.times_finished = 0]

\* Timer::just_finished.
JustFinished(timer) == timer.times_finished > 0

\* timer.set_duration(d); timer.reset().
TimerRestart(timer, d) ==
    [duration |-> d, elapsed |-> 0, finished |-> FALSE, times_finished |-> 0]

\* -------------------------------------------------------- AnimationSprite

\* The f32 2.0 of AnimationSprite::new.
Speed == 2

\* AnimationSprite::new.
AnimationSpriteNew ==
    [timer |-> TimerNew,
     current_animation_name |-> "",
     current_frame_index |-> 0,
     loop_animation |-> TRUE,
     is_dirty |-> TRUE,
     speed |-> Speed]

\* Mutant of SetAnimation: no early return for the current name.
SetAnimationNoReturn(sprite, name, loop_animation) ==
    [sprite EXCEPT !.current_animation_name = name,
                   !.current_frame_index = 0,
                   !.loop_animation = loop_animation,
                   !.is_dirty = TRUE]

\* Mutant of SetAnimation: the frame index is not reset.
SetAnimationKeepsIndex(sprite, name, loop_animation) ==
    IF sprite.current_animation_name = name THEN sprite
    ELSE [sprite EXCEPT !.current_animation_name = name,
                        !.loop_animation = loop_animation,
                        !.is_dirty = TRUE]

\* Mutant of SetAnimation: the sprite is not marked dirty.
SetAnimationNotDirty(sprite, name, loop_animation) ==
    IF sprite.current_animation_name = name THEN sprite
    ELSE [sprite EXCEPT !.current_animation_name = name,
                        !.current_frame_index = 0,
                        !.loop_animation = loop_animation]

\* AnimationSprite::set_animation.
SetAnimation(sprite, name, loop_animation) ==
    IF sprite.current_animation_name = name THEN sprite
    ELSE [sprite EXCEPT !.current_animation_name = name,
                        !.current_frame_index = 0,
                        !.loop_animation = loop_animation,
                        !.is_dirty = TRUE]

\* HashMap::get on aseprite.animations.
GetAnimation(aseprite, name) ==
    IF name \in DOMAIN aseprite.animations THEN Some(aseprite.animations[name]) ELSE None

\* Mutant of FrameTime: the speed is not applied.
FrameTimeIgnoresSpeed(frame, speed) == frame.duration

\* Duration::from_secs_f32(frame.duration / sprite.speed).
FrameTime(frame, speed) == frame.duration \div speed

\* Mutant of SetNewFrame: the frame after the clip's frame is shown.
SetNewFrameShowsFollowing(st, animation) ==
    LET frame == Get(animation.frames, st.sprite.current_frame_index)
    IN  IF frame = None THEN st
        ELSE [st EXCEPT
                !.sprite.timer = TimerRestart(st.sprite.timer,
                                              FrameTime(Unwrap(frame), st.sprite.speed)),
                !.texture_atlas_sprite.index = Unwrap(frame).index + 1]

\* The closure set_new_frame, on st = [sprite, texture_atlas_sprite, panicked].
SetNewFrame(st, animation) ==
    LET frame == Get(animation.frames, st.sprite.current_frame_index)
    IN  IF frame = None THEN st
        ELSE [st EXCEPT
                !.sprite.timer = TimerRestart(st.sprite.timer,
                                              FrameTime(Unwrap(frame), st.sprite.speed)),
                !.texture_atlas_sprite.index = Unwrap(frame).index]

\* Mutant of Refresh: a sprite whose name is no clip of the sheet stays dirty.
RefreshKeepsDirtyWithoutClip(st, aseprite) ==
    LET animation == GetAnimation(aseprite, st.sprite.current_animation_name)
    IN  IF animation = None THEN st
        ELSE [SetNewFrame(st, Unwrap(animation)) EXCEPT !.sprite.is_dirty = FALSE]

\* The branch of a dirty sprite (lines 213-217).
Refresh(st, aseprite) ==
    LET animation == GetAnimation(aseprite, st.sprite.current_animation_name)
        shown == IF animation = None THEN st ELSE SetNewFrame(st, Unwrap(animation))
    IN  [shown EXCEPT !.sprite.is_dirty = FALSE]

\* animation.frames.len() - 1 on usize: with overflow checks (a debug build) the
\* subtraction from 0 panics, without them (a release build) it wraps.
LastIndex(len) == IF len = 0 THEN UsizeMax ELSE len - 1

\* Mutant of NextFrame: the last index is taken to be frames.len().
NextFrameOffByOne(st, animation, overflow_checks) ==
    IF st.sprite.current_frame_index + 1 > Len(animation.frames)
    THEN IF st.sprite.loop_animation
         THEN SetNewFrame([st EXCEPT !.sprite.current_frame_index = 0], animation)
         ELSE st
    ELSE SetNewFrame(
             [st EXCEPT !.sprite.current_frame_index = st.sprite.current_frame_index + 1],
             animation)

\* The frame step once the timer has just finished (lines 223-233).
NextFrame(st, animation, overflow_checks) ==
    IF Len(animation.frames) = 0 /\ overflow_checks THEN [st EXCEPT !.panicked = TRUE]
    ELSE IF st.sprite.current_frame_index + 1 > LastIndex(Len(animation.frames))
         THEN IF st.sprite.loop_animation
              THEN SetNewFrame([st EXCEPT !.sprite.current_frame_index = 0], animation)
              ELSE st
         ELSE SetNewFrame(
                  [st EXCEPT !.sprite.current_frame_index = st.sprite.current_frame_index + 1],
                  animation)

\* The branch of a sprite that is not dirty (lines 219-235).
Tick(st, aseprite, delta, overflow_checks) ==
    LET ticked == [st EXCEPT !.sprite.timer = TimerTick(st.sprite.timer, delta)]
        animation == GetAnimation(aseprite, st.sprite.current_animation_name)
    IN  IF JustFinished(ticked.sprite.timer) /\ animation # None
        THEN NextFrame(ticked, Unwrap(animation), overflow_checks)
        ELSE ticked

\* Mutant of AnimationSpriteSystem: without the sheet the sprite is taken to
\* be refreshed.
AnimationSpriteSystemRefreshesUnloaded(st, loaded, delta, overflow_checks) ==
    IF loaded = None THEN [st EXCEPT !.sprite.is_dirty = FALSE]
    ELSE IF st.sprite.is_dirty THEN Refresh(st, Unwrap(loaded))
         ELSE Tick(st, Unwrap(loaded), delta, overflow_checks)

\* Mutant of AnimationSpriteSystem: the refresh of a dirty sprite falls through
\* to the timer tick.
AnimationSpriteSystemFallsThrough(st, loaded, delta, overflow_checks) ==
    IF loaded = None THEN st
    ELSE IF st.sprite.is_dirty
         THEN Tick(Refresh(st, Unwrap(loaded)), Unwrap(loaded), delta, overflow_checks)
         ELSE Tick(st, Unwrap(loaded), delta, overflow_checks)

\* The body of animation_sprite_system for one sprite; loaded is
\* aseprites.get(&sprite.aseprite).
AnimationSpriteSystem(st, loaded, delta, overflow_checks) ==
    IF loaded = None THEN st
    ELSE IF st.sprite.is_dirty THEN Refresh(st, Unwrap(loaded))
         ELSE Tick(st, Unwrap(loaded), delta, overflow_checks)

\* ------------------------------------------------------------ LDtk export

\* The bounds of the levels: the layers and the entities of a level, counted
\* together, and the grid of cells the tiles lie in.
MaxLevelSize == 4
GridWidth == 3
GridHeight == 3

\* The size in pixels of a grid cell of the layers and of a tile of the tilesets.
GridSize == 16

\* RAPIER_SCALE: pixels per metre.
RAPIER_SCALE == 32

\* A length or vector in metres: pixels / rapier_config.scale, kept as the
\* quotient's two terms.
Scaled(pixels) == [pixels |-> pixels, per |-> RAPIER_SCALE]

\* serde_json::Value of a field instance: a string or a number.
JsonString(text) == [kind |-> "String", text |-> text, number |-> 0]

JsonNumber(number) == [kind |-> "Number", text |-> "", number |-> number]

\* Value::as_str.
AsStr(value) == IF value.kind = "String" THEN Some(value.text) ELSE None

\* The types of LdtkData, with the fields Ldtk::load reads.  value,
\* tileset_def_uid and layer_instances are Options.
FieldInstance(identifier, value) == [identifier |-> identifier, value |-> value]

EntityInstance(identifier, px, field_instances) ==
    [identifier |-> identifier, px |-> px, field_instances |-> field_instances]

GridTile(px, t) == [px |-> px, t |-> t]

LayerInstance(layer_instance_type, tileset_def_uid, grid_tiles, entity_instances) ==
    [layer_instance_type |-> layer_instance_type, tileset_def_uid |-> tileset_def_uid,
     grid_size |-> GridSize, grid_tiles |-> grid_tiles,
     entity_instances |-> entity_instances]

\* One entry of a tileset's custom data.  tileId is Some(n) when the entry
\* has the key with a JSON number that is an i64; data is Some(list) when the
\* entry has the key with a JSON string that parses as a list of pairs of
\* numbers.  None stands for every other entry.
CustomData(tileId, data) == [tileId |-> tileId, data |-> data]

TilesetDefinition(uid, custom_data) ==
    [uid |-> uid, tile_grid_size |-> GridSize, custom_data |-> custom_data]

Level(identifier, layer_instances, world_x, world_y) ==
    [identifier |-> identifier, layer_instances |-> layer_instances,
     world_x |-> world_x, world_y |-> world_y]

LdtkData(levels, tilesets) == [levels |-> levels, defs |-> [tilesets |-> tilesets]]

\* Iterator::collect into a Vec: the sequence with its elements computed.
Collect(seq) == SubSeq(seq, 1, Len(seq))

\* Iterator::find on a sequence, for the test that a field has a value:
\* Some(the first element that passes) or None.
Find(seq, field, value) ==
    LET hits == {i \in DOMAIN seq : seq[i][field] = value}
    IN  IF hits = {} THEN None
        ELSE Some(seq[CHOOSE i \in hits : \A j \in hits : i <= j])

\* The elements of a set of sets of cells as a sequence, ordered by their
\* smallest cell (row by row).
CellKey(cell) == cell[2] * GridWidth + cell[1]

LeastKey(cells) == CHOOSE k \in {CellKey(c) : c \in cells} :
                       \A c \in cells : k <= CellKey(c)

RECURSIVE InOrder(_)
InOrder(regions) ==
    IF regions = {} THEN <<>>
    ELSE LET first == CHOOSE r \in regions :
                          \A s \in regions : LeastKey(r) <= LeastKey(s)
         IN  <<first>> \o InOrder(regions \ {first})

\* ------------------------------------------------- tileset collision data

\* Lines 136-142: the points of a tile's polygon, in tiles with y down, become
\* pixels with y up.
LocalPolygon(points, tile_grid_size) ==
    Collect([k \in DOMAIN points |->
        <<points[k][1] * tile_grid_size, (0 - points[k][2]) * tile_grid_size>>])

\* Lines 116-149: the HashMap from tile id to local polygon of one tileset.
\* An entry without tile id or without data is dropped; of two entries with
\* one tile id the later one stays.
TilesetCollision(tileset_def) ==
    LET custom_data == tileset_def.custom_data
        kept == {i \in DOMAIN custom_data :
                    custom_data[i].tileId # None /\ custom_data[i].data # None}
        Last(id) == CHOOSE i \in kept :
                        /\ Unwrap(custom_data[i].tileId) = id
                        /\ \A j \in kept : Unwrap(custom_data[j].tileId) = id => j <= i
    IN  [id \in {Unwrap(custom_data[i].tileId) : i \in kept} |->
            LocalPolygon(Unwrap(custom_data[Last(id)].data), tileset_def.tile_grid_size)]

\* Lines 70-83: the tileset definitions the layers of the level refer to, one
\* per uid; a uid that no definition has is left out.
TilesetDefs(ldtk_data, layer_instances) ==
    LET uids == {Unwrap(layer_instances[k].tileset_def_uid) :
                    k \in {j \in DOMAIN layer_instances :
                              layer_instances[j].tileset_def_uid # None}}
        Def(uid) == Find(ldtk_data.defs.tilesets, "uid", uid)
    IN  {Unwrap(Def(uid)) : uid \in {u \in uids : Def(u) # None}}

\* Lines 91-110: the HashMap from uid to the handle of the tileset's atlas.
TextureAtlasHandles(tileset_defs) ==
    [uid \in {d.uid : d \in tileset_defs} |-> [texture_atlas |-> uid]]

\* Lines 113-152: the HashMap from uid to the tileset's collision data.
TilesetCollisions(tileset_defs) ==
    [uid \in {d.uid : d \in tileset_defs} |->
        TilesetCollision(CHOOSE d \in tileset_defs : d.uid = uid)]

\* Lines 215-218: a polygon with every point moved by a vector.
Translate(points, by) ==
    Collect([k \in DOMAIN points |-> <<points[k][1] + by[1], points[k][2] + by[2]>>])

\* Mutant of Polygons: the tiles' positions keep y pointing down.
PolygonsUnflipped(grid_tiles, tileset_collision) ==
    LET placed == SelectSeq(grid_tiles, LAMBDA grid_tile : grid_tile.t \in DOMAIN tileset_collision)
    IN  Collect([k \in DOMAIN placed |->
            Translate(tileset_collision[placed[k].t], <<placed[k].px[1], placed[k].px[2]>>)])

\* Lines 208-221: the polygons of the tiles that have a polygon in the
\* tileset, in the order of the tiles, each moved by grid_tile_position.
Polygons(grid_tiles, tileset_collision) ==
    LET placed == SelectSeq(grid_tiles, LAMBDA grid_tile : grid_tile.t \in DOMAIN tileset_collision)
    IN  Collect([k \in DOMAIN placed |->
            Translate(tileset_collision[placed[k].t], <<placed[k].px[1], 0 - placed[k].px[2]>>)])

\* ----------------------------------------------------------- merge_polygons

\* The cells of the grid, and those at its border.
GridCells == (0..(GridWidth - 1)) \X (0..(GridHeight - 1))

BorderCells ==
    {c \in GridCells : c[1] \in {0, GridWidth - 1} \/ c[2] \in {0, GridHeight - 1}}

\* The four corners in pixels, y up, of a cell.
CellCorners(cell) ==
    {<<(cell[1] + dx) * GridSize, 0 - ((cell[2] + dy) * GridSize)>> :
        dx \in {0, 1}, dy \in {0, 1}}

\* geo::LineString of a ring, kept as the number of its points and the cells
\* it encloses: the ring around one cell encloses that cell, a ring of fewer
\* than three distinct points encloses nothing.  (The set of cells is written
\* as {c : c \in ..}, which makes TLC list its elements.)
Ring(inside, len) == [inside |-> {c : c \in inside}, len |-> len]

\* Lines 383-394: LineString::from(points) and Polygon::new, which closes the
\* ring with its first point unless it is empty or closed already.
PolygonNew(points) ==
    LET corners == {points[k] : k \in DOMAIN points}
        len == IF points = <<>> THEN 0
               ELSE IF points[1] = points[Len(points)] THEN Len(points)
               ELSE Len(points) + 1
    IN  [exterior |-> Ring({c \in GridCells : CellCorners(c) = corners}, len),
         interiors |-> <<>>]

\* Cells that share a side.
Adjacent(c, d) ==
    \/ c[1] = d[1] /\ (c[2] = d[2] + 1 \/ d[2] = c[2] + 1)
    \/ c[2] = d[2] /\ (c[1] = d[1] + 1 \/ d[1] = c[1] + 1)

\* The cells of a set that a chain of adjacent cells of the set joins to seed.
RECURSIVE Grow(_, _)
Grow(seed, within) ==
    LET next == {c : c \in seed \cup {d \in within : \E c \in seed : Adjacent(c, d)}}
    IN  IF next = seed THEN seed ELSE Grow(next, within)

Components(cells) == {Grow({c}, cells) : c \in cells}

\* The regions a connected set of cells encloses: the free cells that no
\* chain of free cells joins to the border of the grid.
Holes(component) ==
    LET free == {c \in GridCells : c \notin component}
    IN  Components({c \in free : c \notin Grow({b \in BorderCells : b \in free}, free)})

\* The number of corners of the outline of a set of cells: a grid point is a
\* corner when one or three of the four cells around it are in the set, and
\* twice a corner when two opposite ones are.
Corners(cells) ==
    LET Around(p) == {c \in cells : c[1] \in {p[1] - 1, p[1]} /\ c[2] \in {p[2] - 1, p[2]}}
        Opposite(p) == \/ Around(p) = {<<p[1] - 1, p[2] - 1>>, <<p[1], p[2]>>}
                       \/ Around(p) = {<<p[1], p[2] - 1>>, <<p[1] - 1, p[2]>>}
        points == (0..GridWidth) \X (0..GridHeight)
    IN  Cardinality({p \in points : Cardinality(Around(p)) \in {1, 3} \/ Opposite(p)})
        + Cardinality({p \in points : Opposite(p)})

\* The closed ring around a set of cells.
RingAround(cells) == Ring(cells, Corners(cells) + 1)

\* The cells a geo::MultiPolygon covers.
Covered(multi_polygon) ==
    UNION {multi_polygon[k].exterior.inside
              \ UNION {multi_polygon[k].interiors[h].inside :
                          h \in DOMAIN multi_polygon[k].interiors} :
           k \in DOMAIN multi_polygon}

\* The polygon of a connected set of cells: its outline as exterior and one
\* interior ring per region it encloses.
PolygonAround(part) ==
    LET holes == InOrder(Holes(part))
    IN  [exterior |-> RingAround(part \cup UNION {holes[h] : h \in DOMAIN holes}),
         interiors |-> Collect([h \in DOMAIN holes |-> RingAround(holes[h])])]

\* BooleanOp::union of geo_booleanop on polygons made of grid cells: one
\* polygon per connected part of the cells the two cover.
Union(a, b) ==
    LET parts == InOrder(Components({c : c \in Covered(a) \cup Covered(b)}))
    IN  Collect([k \in DOMAIN parts |-> PolygonAround(parts[k])])

\* Mutant of Reduce: the fold keeps its last operand only.
ReduceKeepsLast(multi_polygons, k, acc) == multi_polygons[Len(multi_polygons)]

\* Line 396: Iterator::reduce with union, from the k-th multi-polygon on.
\* (The test of next makes TLC compute each union before the one after it.)
RECURSIVE Reduce(_, _, _)
Reduce(multi_polygons, k, acc) ==
    IF k > Len(multi_polygons) THEN acc
    ELSE LET next == Union(acc, multi_polygons[k])
         IN  IF next = <<>> THEN Reduce(multi_polygons, k + 1, <<>>)
             ELSE Reduce(multi_polygons, k + 1, next)

\* The rings of the polygons of a multi-polygon from the k-th on, interior
\* rings included.
RECURSIVE AllRings(_, _)
AllRings(multi_polygon, k) ==
    IF k > Len(multi_polygon) THEN <<>>
    ELSE <<multi_polygon[k].exterior>> \o multi_polygon[k].interiors
            \o AllRings(multi_polygon, k + 1)

\* Mutant of MergePolygons: the interior rings are outlines as well.
MergePolygonsWithInteriors(polygons) ==
    IF polygons = <<>> THEN None
    ELSE LET multi_polygons == Collect([k \in DOMAIN polygons |-> <<PolygonNew(polygons[k])>>])
         IN  Some(AllRings(Reduce(multi_polygons, 2, multi_polygons[1]), 1))

\* Mutant of MergePolygons: no polygon gives one outline without a point.
MergePolygonsEmptyOutline(polygons) ==
    IF polygons = <<>> THEN Some(<<Ring({}, 0)>>)
    ELSE LET multi_polygons == Collect([k \in DOMAIN polygons |-> <<PolygonNew(polygons[k])>>])
             multi_polygon == Reduce(multi_polygons, 2, multi_polygons[1])
         IN  Some(Collect([k \in DOMAIN multi_polygon |-> multi_polygon[k].exterior]))

\* merge_polygons: None for no polygon, else the exterior ring of every
\* polygon of the union.
MergePolygons(polygons) ==
    IF polygons = <<>> THEN None
    ELSE LET multi_polygons == Collect([k \in DOMAIN polygons |-> <<PolygonNew(polygons[k])>>])
             multi_polygon == Reduce(multi_polygons, 2, multi_polygons[1])
         IN  Some(Collect([k \in DOMAIN multi_polygon |-> multi_polygon[k].exterior]))

\* ----------------------------------------------------------------- Ldtk::load

\* u32::MAX.  TLC's integers do not reach it: the largest of them stands for it.
U32Max == 2147483647

\* LdtkEvent.
SpawnPlayer(position) == [type |-> "SpawnPlayer", name |-> "", position |-> position]

SpawnEnemy(name, position) == [type |-> "SpawnEnemy", name |-> name, position |-> position]

\* What a call of Ldtk::load has done so far: how it ended ("ok", "err" for a
\* returned Err, "panic"), the events sent, the layer entities spawned, and
\* the arguments of the calls of merge_polygons.
NoOutput == [result |-> "ok", events |-> <<>>, commands |-> <<>>, merge_calls |-> <<>>]

\* Lines 171-183: the name of an Enemy, an Option.
EnemyName(entity_instance) ==
    LET field == Find(entity_instance.field_instances, "identifier", "name")
    IN  IF field = None THEN None
        ELSE IF Unwrap(field).value = None THEN None
        ELSE AsStr(Unwrap(Unwrap(field).value))

\* Mutant of EntityInstanceArm: an Enemy without a name is passed over.
EntityInstanceArmSkipsNameless(entity_instance, level_position, out) ==
    LET position == <<entity_instance.px[1] + level_position[1],
                      (0 - entity_instance.px[2]) + level_position[2],
                      0 + level_position[3]>>
    IN  CASE entity_instance.identifier = "PlayerStart" ->
               [out EXCEPT !.events = Append(@, SpawnPlayer(position))]
          [] entity_instance.identifier = "Enemy" /\ EnemyName(entity_instance) # None ->
               [out EXCEPT !.events = Append(@,
                   SpawnEnemy(Unwrap(EnemyName(entity_instance)), position))]
          [] OTHER -> out

\* Mutant of EntityInstanceArm: the event of a PlayerStart goes before the
\* events sent so far.
EntityInstanceArmPlayerFirst(entity_instance, level_position, out) ==
    LET position == <<entity_instance.px[1] + level_position[1],
                      (0 - entity_instance.px[2]) + level_position[2],
                      0 + level_position[3]>>
    IN  CASE entity_instance.identifier = "PlayerStart" ->
               [out EXCEPT !.events = <<SpawnPlayer(position)>> \o @]
          [] entity_instance.identifier = "Enemy" ->
               IF EnemyName(entity_instance) = None
               THEN [out EXCEPT !.result = "err"]
               ELSE [out EXCEPT !.events = Append(@,
                        SpawnEnemy(Unwrap(EnemyName(entity_instance)), position))]
          [] OTHER -> out

\* Lines 161-187: one entity of an Entities layer.
EntityInstanceArm(entity_instance, level_position, out) ==
    LET position == <<entity_instance.px[1] + level_position[1],
                      (0 - entity_instance.px[2]) + level_position[2],
                      0 + level_position[3]>>
    IN  CASE entity_instance.identifier = "PlayerStart" ->
               [out EXCEPT !.events = Append(@, SpawnPlayer(position))]
          [] entity_instance.identifier = "Enemy" ->
               IF EnemyName(entity_instance) = None
               THEN [out EXCEPT !.result = "err"]
               ELSE [out EXCEPT !.events = Append(@,
                        SpawnEnemy(Unwrap(EnemyName(entity_instance)), position))]
          [] OTHER -> out

\* Line 160: the entities of an Entities layer from the k-th on, until one
\* ends the call.
RECURSIVE ScanEntities(_, _, _, _)
ScanEntities(entity_instances, k, level_position, out) ==
    IF k > Len(entity_instances) \/ out.result # "ok" THEN out
    ELSE ScanEntities(entity_instances, k + 1, level_position,
             EntityInstanceArm(entity_instances[k], level_position, out))

\* Lines 232-238: the edges (i, i + 1) of an outline of len points and the
\* closing edge (len - 1, 0), computed in u32 without overflow checks.
ClosedEdges(len) ==
    IF len = 0 THEN <<(<<U32Max, 0>>)>>
    ELSE [i \in 1..len |-> IF i < len THEN <<i - 1, i>> ELSE <<len - 1, 0>>]

\* Lines 239-271: the collider and the debug geometry of one outline.
Collision(polygon, level_position) ==
    [collider |-> [shape |-> [vertices |-> Scaled(polygon), indices |-> ClosedEdges(polygon.len)],
                   material |-> "COLLIDER_MATERIAL",
                   position |-> Scaled(level_position)],
     geometry |-> [points |-> polygon, closed |-> TRUE]]

\* Lines 286-300: the sprite of one tile.
TileSprite(grid_tile, grid_size, texture_atlas_handle) ==
    [texture_atlas |-> texture_atlas_handle,
     index |-> grid_tile.t,
     translation |-> <<grid_tile.px[1] + (grid_size \div 2),
                       (0 - grid_tile.px[2]) - (grid_size \div 2), 1>>]

\* Lines 198-313 of a Tiles layer whose tileset is found.  A merged outline
\* without a point makes len - 1 overflow at line 238: a build with overflow
\* checks panics there; a build without hands the edge (u32::MAX, 0) and no
\* vertex to the convex decomposition, which panics or yields a shape
\* (vhacd_panics).
SpawnLayer(layer_instance, texture_atlas_handle, tileset_collision, env, out) ==
    LET polygons == Polygons(layer_instance.grid_tiles, tileset_collision)
        merged == MergePolygons(polygons)
        called == [out EXCEPT !.merge_calls = Append(@, polygons)]
        collisions ==
            IF merged = None THEN None
            ELSE Some([k \in DOMAIN Unwrap(merged) |->
                          Collision(Unwrap(merged)[k], env.level_position)])
        tiles == [k \in DOMAIN layer_instance.grid_tiles |->
                     TileSprite(layer_instance.grid_tiles[k], layer_instance.grid_size,
                                texture_atlas_handle)]
    IN  IF /\ merged # None
           /\ \E k \in DOMAIN Unwrap(merged) : Unwrap(merged)[k].len = 0
           /\ env.overflow_checks \/ env.vhacd_panics
        THEN [called EXCEPT !.result = "panic"]
        ELSE [called EXCEPT !.commands = Append(@,
                 [collider_position |-> Scaled(env.level_position),
                  tiles |-> tiles,
                  collisions |-> IF collisions = None THEN <<>> ELSE Unwrap(collisions)])]

\* Mutant of TilesLayer: a layer whose tileset is not found is passed over.
TilesLayerSkipsUnresolved(layer_instance, env, out) ==
    LET tileset_def_uid == Unwrap(layer_instance.tileset_def_uid)
    IN  IF tileset_def_uid \notin DOMAIN env.texture_atlas_handles
        THEN out
        ELSE SpawnLayer(layer_instance, env.texture_atlas_handles[tileset_def_uid],
                        env.tileset_collisions[tileset_def_uid], env, out)

\* Lines 190-314: a Tiles layer with a tileset uid.
TilesLayer(layer_instance, env, out) ==
    LET tileset_def_uid == Unwrap(layer_instance.tileset_def_uid)
    IN  IF tileset_def_uid \notin DOMAIN env.texture_atlas_handles
        THEN [out EXCEPT !.result = "err"]
        ELSE SpawnLayer(layer_instance, env.texture_atlas_handles[tileset_def_uid],
                        env.tileset_collisions[tileset_def_uid], env, out)

\* Mutant of LoadLayers: a layer without an arm is passed over.
RECURSIVE LoadLayersSkipsUnsupported(_, _, _, _)
LoadLayersSkipsUnsupported(layer_instances, k, env, out) ==
    IF k > Len(layer_instances) \/ out.result # "ok" THEN out
    ELSE LET layer_instance == layer_instances[k]
             next ==
               CASE layer_instance.layer_instance_type = "Entities" ->
                      ScanEntities(layer_instance.entity_instances, 1,
                                   env.level_position, out)
                 [] /\ layer_instance.layer_instance_type = "Tiles"
                    /\ layer_instance.tileset_def_uid # None ->
                      TilesLayer(layer_instance, env, out)
                 [] OTHER -> out
         IN  LoadLayersSkipsUnsupported(layer_instances, k + 1, env, next)

\* Lines 157-319: the layers from the k-th on, until one ends the call.  A
\* layer of another type, or a Tiles layer without tileset uid, reaches todo!().
RECURSIVE LoadLayers(_, _, _, _)
LoadLayers(layer_instances, k, env, out) ==
    IF k > Len(layer_instances) \/ out.result # "ok" THEN out
    ELSE LET layer_instance == layer_instances[k]
             next ==
               CASE layer_instance.layer_instance_type = "Entities" ->
                      ScanEntities(layer_instance.entity_instances, 1,
                                   env.level_position, out)
                 [] /\ layer_instance.layer_instance_type = "Tiles"
                    /\ layer_instance.tileset_def_uid # None ->
                      TilesLayer(layer_instance, env, out)
                 [] OTHER -> [out EXCEPT !.result = "panic"]
         IN  LoadLayers(layer_instances, k + 1, env, next)

\* Ldtk::load(level_identifier, ..) on the asset with this data.  env holds
\* the locals of lines 70-154 and the two choices of the build.
LdtkLoad(ldtk_data, level_identifier, overflow_checks, vhacd_panics) ==
    LET level == Find(ldtk_data.levels, "identifier", level_identifier)
    IN  IF level = None THEN [NoOutput EXCEPT !.result = "err"]
        ELSE IF Unwrap(level).layer_instances = None
        THEN [NoOutput EXCEPT !.result = "err"]
        ELSE
        LET layer_instances == Unwrap(Unwrap(level).layer_instances)
            tileset_defs == TilesetDefs(ldtk_data, layer_instances)
            env == [texture_atlas_handles |-> TextureAtlasHandles(tileset_defs),
                    tileset_collisions |-> TilesetCollisions(tileset_defs),
                    level_position |-> <<Unwrap(level).world_x, 0 - Unwrap(level).world_y, 0>>,
                    overflow_checks |-> overflow_checks,
                    vhacd_panics |-> vhacd_panics]
        IN  LoadLayers(layer_instances, 1, env, NoOutput)

\* on_ldtk_event_system: the entities spawned for the events from the k-th
\* on, in the order of the events.  An enemy is spawned for the name "test".
RECURSIVE SpawnFor(_, _)
SpawnFor(ldtk_events, k) ==
    IF k > Len(ldtk_events) THEN <<>>
    ELSE LET event == ldtk_events[k]
             body == [position |-> Scaled(<<event.position[1], event.position[2]>>)]
         IN  CASE event.type = "SpawnPlayer" ->
                    <<[actor |-> "player", rigid_body |-> body]>> \o SpawnFor(ldtk_events, k + 1)
               [] event.type = "SpawnEnemy" /\ event.name = "test" ->
                    <<[actor |-> "enemy", rigid_body |-> body]>> \o SpawnFor(ldtk_events, k + 1)
               [] OTHER -> SpawnFor(ldtk_events, k + 1)

\* ------------------------------------------------------------------ state

VARIABLES
    data,                  \* the export the asset loader reads (AsepriteData)
    order,                 \* the iteration order of the HashMap data.frames
    overflow_checks,       \* whether the build checks integer overflow
    aseprites,             \* Assets<Aseprite> at the sprite's handle: an Option
    sprite,                \* the AnimationSprite component
    texture_atlas_sprite,  \* the TextureAtlasSprite component: the frame shown
    panicked,              \* whether the process has panicked
    call,                  \* history: the last call and its arguments
    pre,                   \* history: the components as the last call found them
    run,                   \* history: advance calls in a row since a refresh
    ldtk,                  \* the Ldtk asset
    load_result,           \* how Ldtk::load ended; "none" before the call
    events,                \* Events<LdtkEvent>: the events sent, in order
    commands,              \* the layer entities Ldtk::load has spawned
    merge_calls,           \* history: the arguments of merge_polygons
    reader,                \* the EventReader of on_ldtk_event_system: events read
    spawned                \* the actors on_ldtk_event_system has spawned

ldtk_vars == <<ldtk, load_result, events, commands, merge_calls, reader, spawned>>

animation_vars ==
    <<data, order, aseprites, sprite, texture_atlas_sprite, call, pre, run>>

vars ==
    <<data, order, overflow_checks, aseprites, sprite, texture_atlas_sprite,
      panicked, call, pre, run, ldtk, load_result, events, commands, merge_calls,
      reader, spawned>>

\* data::FrameTag.
FrameTag(name, from, to) == [name |-> name, from |-> from, to |-> to]

\* The names player_system passes to set_animation, and one that is no tag.
ClipNames == {"walk", "wait", "attack", "jump"}

\* The elapsed times of time.delta(): 0, 0.02 s, 0.05 s, 0.13 s.
Deltas == {0, Second \div 50, Second \div 20, (13 * Second) \div 100}

\* The elapsed time of the scenario of three ticks of 0.05 s.
ScenarioDelta == Second \div 20

\* The number of ticks of the scenario that run counts.
ScenarioTicks == 3

\* Two character sheets of three frames.  With uniform durations every frame
\* lasts 100 ms, "wait" is one frame and "attack" has from > to; otherwise the
\* frames last 40, 100 and 160 ms, "wait" reaches past the sheet and the whole
\* range of "attack" lies outside it.
PlaybackExport(uniform) ==
    AsepriteData({Name0, Name1, Name2}, uniform,
        IF uniform
        THEN <<FrameTag("walk", 0, 2), FrameTag("wait", 1, 1), FrameTag("attack", 2, 1)>>
        ELSE <<FrameTag("walk", 0, 2), FrameTag("wait", 1, 5), FrameTag("attack", 3, 4)>>)

\* The tags of the exports of SpecParse: none, one of any range, or two that
\* start at frame 0.
Tags == {FrameTag(n, f, t) : n \in {"walk", "wait"}, f \in -1..MaxTag, t \in -1..MaxTag}

TagLists ==
    {<<>>} \cup {<<t>> : t \in Tags}
           \cup {<<t, u>> : t, u \in {v \in Tags : v.from = 0}}

NoCall == [op |-> "new", name |-> "", loop_animation |-> FALSE, delta |-> 0]

\* The state after AnimationSprite::new and SpriteSheetBundle::default(),
\* before the asset is loaded.
InitSprite ==
    /\ aseprites = None
    /\ sprite = AnimationSpriteNew
    /\ texture_atlas_sprite = [index |-> 0]
    /\ panicked = FALSE
    /\ call = NoCall
    /\ pre = [sprite |-> AnimationSpriteNew, texture_atlas_sprite |-> [index |-> 0]]
    /\ run = 0

\* The state before the Ldtk asset is created.
InitLdtkEvents ==
    /\ load_result = "none"
    /\ events = <<>>
    /\ commands = <<>>
    /\ merge_calls = <<>>
    /\ reader = 0
    /\ spawned = <<>>

Init ==
    /\ \E uniform \in BOOLEAN : data = PlaybackExport(uniform)
    /\ order \in Orderings(DOMAIN data.frames)
    /\ overflow_checks \in BOOLEAN
    /\ InitSprite
    /\ ldtk = [data |-> LdtkData(<<>>, <<>>)]
    /\ InitLdtkEvents

InitParse ==
    /\ \E names \in {S \in SUBSET NamePool : Cardinality(S) <= MaxFrames} :
       \E tags \in TagLists :
           data = AsepriteData(names, FALSE, tags)
    /\ order \in Orderings(DOMAIN data.frames)
    /\ overflow_checks = FALSE
    /\ InitSprite
    /\ ldtk = [data |-> LdtkData(<<>>, <<>>)]
    /\ InitLdtkEvents

Snapshot == [sprite |-> sprite, texture_atlas_sprite |-> texture_atlas_sprite]

\* AsepriteLoader::load: the asset becomes available.
Load ==
    /\ ~panicked
    /\ aseprites = None
    /\ aseprites' = Some(AsepriteNew(data, order))
    /\ call' = [NoCall EXCEPT !.op = "load"]
    /\ pre' = Snapshot
    /\ run' = 0
    /\ UNCHANGED <<data, order, overflow_checks, sprite, texture_atlas_sprite, panicked>>
    /\ UNCHANGED ldtk_vars

\* A call of sprite.set_animation(name, loop_animation).
CallSetAnimation ==
    /\ ~panicked
    /\ \E name \in ClipNames, loop_animation \in BOOLEAN :
        /\ sprite' = SetAnimation(sprite, name, loop_animation)
        /\ call' = [op |-> "set_animation", name |-> name,
                    loop_animation |-> loop_animation, delta |-> 0]
    /\ pre' = Snapshot
    /\ run' = 0
    /\ UNCHANGED <<data, order, overflow_checks, aseprites, texture_atlas_sprite, panicked>>
    /\ UNCHANGED ldtk_vars

\* Whether the current clip of the sprite is a clip of the loaded sheet.
HasClip(loaded, s) ==
    /\ loaded # None
    /\ s.current_animation_name \in DOMAIN Unwrap(loaded).animations

\* The current clip of the sprite, when HasClip.
Clip(loaded, s) == Unwrap(loaded).animations[s.current_animation_name]

\* One pass of animation_sprite_system with time.delta() = delta.
CallAdvance ==
    /\ ~panicked
    /\ \E delta \in Deltas :
        LET st == AnimationSpriteSystem(
                      [sprite |-> sprite, texture_atlas_sprite |-> texture_atlas_sprite,
                       panicked |-> panicked],
                      aseprites, delta, overflow_checks)
        IN  /\ sprite' = st.sprite
            /\ texture_atlas_sprite' = st.texture_atlas_sprite
            /\ panicked' = st.panicked
            /\ call' = [op |-> "advance", name |-> "", loop_animation |-> FALSE,
                        delta |-> delta]
            /\ run' = IF /\ sprite.is_dirty
                         /\ HasClip(aseprites, sprite)
                         /\ Len(Clip(aseprites, sprite).frames) > 0
                      THEN 1
                      ELSE IF run >= 1 /\ run <= ScenarioTicks /\ delta = ScenarioDelta
                           THEN run + 1
                           ELSE 0
    /\ pre' = Snapshot
    /\ UNCHANGED <<data, order, overflow_checks, aseprites>>
    /\ UNCHANGED ldtk_vars

Next == Load \/ CallSetAnimation \/ CallAdvance

Spec == Init /\ [][Next]_vars

NextParse == Load

SpecParse == InitParse /\ [][NextParse]_vars

\* ------------------------------------------------------------- level builds

\* The polygon of a full tile, in tiles with y down.
Square == <<(<<0, 0>>), (<<1, 0>>), (<<1, 1>>), (<<0, 1>>)>>

\* The tilesets of the exports.  In tileset 1 tile 0 has the full square (a
\* later entry replaces an earlier one), tile 2 a polygon without points, and
\* tiles 1 and 3 none: an entry without tile id or without readable data
\* registers nothing.  Tileset 2 has no custom data.
Tilesets ==
    <<TilesetDefinition(1, <<CustomData(Some(0), Some(<<>>)),
                             CustomData(Some(0), Some(Square)),
                             CustomData(Some(2), Some(<<>>)),
                             CustomData(None, Some(Square)),
                             CustomData(Some(3), None)>>),
      TilesetDefinition(2, <<>>)>>

\* The tile with id t in a cell of the grid.
Tile(cell, t) == GridTile(<<cell[1] * GridSize, cell[2] * GridSize>>, t)

\* The tiles of the Tiles layers: none, one, two that share a side, two
\* apart, eight around a free cell, tiles without polygon, a mix placed from
\* right to left, and a tile whose polygon has no point.
TileLayouts ==
    {<<>>,
     <<Tile(<<0, 0>>, 0)>>,
     <<Tile(<<0, 0>>, 0), Tile(<<1, 0>>, 0)>>,
     <<Tile(<<0, 0>>, 0), Tile(<<2, 0>>, 0)>>,
     <<Tile(<<0, 0>>, 0), Tile(<<1, 0>>, 0), Tile(<<2, 0>>, 0), Tile(<<2, 1>>, 0),
       Tile(<<2, 2>>, 0), Tile(<<1, 2>>, 0), Tile(<<0, 2>>, 0), Tile(<<0, 1>>, 0)>>,
     <<Tile(<<0, 0>>, 1), Tile(<<1, 0>>, 3)>>,
     <<Tile(<<2, 2>>, 0), Tile(<<1, 2>>, 1), Tile(<<0, 0>>, 0)>>,
     <<Tile(<<0, 0>>, 2)>>}

\* The entities of the Entities layers: a player start, enemies with the
\* names "test" and "bat", an enemy whose name is a number, and an entity of
\* another kind.
EntityPool ==
    {EntityInstance("PlayerStart", <<16, 32>>, <<>>),
     EntityInstance("Enemy", <<48, 32>>,
         <<FieldInstance("hp", Some(JsonNumber(3))),
           FieldInstance("name", Some(JsonString("test")))>>),
     EntityInstance("Enemy", <<64, 16>>, <<FieldInstance("name", Some(JsonString("bat")))>>),
     EntityInstance("Enemy", <<96, 32>>, <<FieldInstance("name", Some(JsonNumber(7)))>>),
     EntityInstance("Item", <<128, 32>>, <<>>)}

\* Enemies without a field and with null as name.
NamelessPool ==
    {EntityInstance("Enemy", <<80, 32>>, <<>>),
     EntityInstance("Enemy", <<112, 32>>, <<FieldInstance("name", None)>>)}

\* The layers of the levels of several layers that hold size - 1 entities:
\* an Entities layer; or, without entity, a Tiles layer of a tileset with
\* collision data, of a tileset without, of a tileset uid that no definition
\* has, or without tileset uid, and an IntGrid layer.
LayersOfSize(size) ==
    {LayerInstance("Entities", None, <<>>, entity_instances) :
        entity_instances \in [1..(size - 1) -> EntityPool]}
    \cup IF size > 1 THEN {}
         ELSE {LayerInstance("Tiles", tileset_def_uid,
                             <<Tile(<<2, 2>>, 0), Tile(<<1, 2>>, 1), Tile(<<0, 0>>, 0)>>, <<>>) :
                  tileset_def_uid \in {Some(1), Some(2), Some(9), None}}
              \cup {LayerInstance("IntGrid", None, <<>>, <<>>)}

\* The lists of layers whose layers and entities are size at most.
RECURSIVE LayerLists(_)
LayerLists(size) ==
    {<<>>} \cup UNION {{<<first>> \o rest : first \in LayersOfSize(n),
                                            rest \in LayerLists(size - n)} :
                       n \in 1..size}

\* The world positions of the level.
WorldPositions == {<<0, 0>>, <<256, 128>>}

\* An export with the level "Level_0" after another level.
Export(layer_instances, world) ==
    LdtkData(<<Level("Level_1", Some(<<>>), 0, 0),
               Level("Level_0", layer_instances, world[1], world[2])>>, Tilesets)

\* Exports of several layers, the level away from the origin of the world;
\* an export without "Level_0"; "Level_0" without layer data; a nameless
\* enemy after a player start.
LayerExports ==
    {Export(Some(layer_instances), <<256, 128>>) :
        layer_instances \in LayerLists(MaxLevelSize)}
    \cup {Export(Some(<<LayerInstance("Entities", None, <<>>,
                          <<EntityInstance("PlayerStart", <<16, 32>>, <<>>), nameless>>)>>),
                 <<0, 0>>) : nameless \in NamelessPool}
    \cup {LdtkData(<<Level("Level_1", Some(<<>>), 0, 0)>>, Tilesets),
          Export(None, <<0, 0>>)}

\* Exports of one Tiles layer of tileset 1 with each layout of tiles.
TileExports ==
    {Export(Some(<<LayerInstance("Tiles", Some(1), grid_tiles, <<>>)>>), world) :
        grid_tiles \in TileLayouts, world \in WorldPositions}

\* A list of tiles from its last tile to its first.
Reversed(grid_tiles) ==
    [k \in DOMAIN grid_tiles |-> grid_tiles[Len(grid_tiles) + 1 - k]]

\* Exports of two Tiles layers of tileset 1 with the same tiles: a layout, and
\* its tiles in another order, placed twice, or both.  The layouts are those
\* with tiles whose polygons are closed rings.
RearrangedExports ==
    UNION {{Export(Some(<<LayerInstance("Tiles", Some(1), grid_tiles, <<>>),
                          LayerInstance("Tiles", Some(1), rearranged, <<>>)>>), <<0, 0>>) :
               rearranged \in {Reversed(grid_tiles),
                               grid_tiles \o grid_tiles,
                               Reversed(grid_tiles) \o <<grid_tiles[1]>>}} :
           grid_tiles \in {layout \in TileLayouts :
                              /\ layout # <<>>
                              /\ \A i \in DOMAIN layout : layout[i].t # 2}}

InitLdtk ==
    /\ data = PlaybackExport(TRUE)
    /\ order = <<Name0, Name1, Name2>>
    /\ InitSprite
    /\ \/ /\ overflow_checks = TRUE
          /\ ldtk \in {[data |-> ldtk_data] : ldtk_data \in LayerExports}
       \/ /\ overflow_checks \in BOOLEAN
          /\ ldtk \in {[data |-> ldtk_data] : ldtk_data \in TileExports}
       \/ /\ overflow_checks = TRUE
          /\ ldtk \in {[data |-> ldtk_data] : ldtk_data \in RearrangedExports}
    /\ InitLdtkEvents

\* on_asset_event_system at AssetEvent::Created: ldtk.load("Level_0", ..)
\* and unwrap() of its result.  commands holds the spawns handed to Commands.
OnAssetEventSystem ==
    /\ ~panicked
    /\ load_result = "none"
    /\ \E vhacd_panics \in BOOLEAN :
       \E out \in {LdtkLoad(ldtk.data, "Level_0", overflow_checks, vhacd_panics)} :
            /\ load_result' = out.result
            /\ events' = out.events
            /\ commands' = out.commands
            /\ merge_calls' = out.merge_calls
            /\ panicked' = (out.result # "ok")
    /\ UNCHANGED <<ldtk, reader, spawned, overflow_checks>>
    /\ UNCHANGED animation_vars

\* on_ldtk_event_system: the events not read yet, in their order.
OnLdtkEventSystem ==
    /\ ~panicked
    /\ reader < Len(events)
    /\ spawned' = spawned \o SpawnFor(events, reader + 1)
    /\ reader' = Len(events)
    /\ UNCHANGED <<ldtk, load_result, events, commands, merge_calls,
                   overflow_checks, panicked>>
    /\ UNCHANGED animation_vars

NextLdtk == OnAssetEventSystem \/ OnLdtkEventSystem

SpecLdtk == InitLdtk /\ [][NextLdtk]_vars

\* ------------------------------------------------------- claims: playback

\* What the last call found and what it was.
WasSetAnimation == call.op = "set_animation"

WasAdvance == call.op = "advance"

PreName == pre.sprite.current_animation_name

\* The timer as the playback engine reads it: its duration, the time elapsed
\* and whether it has finished.
TimerView(timer) ==
    [duration |-> timer.duration, elapsed |-> timer.elapsed, finished |-> timer.finished]

\* A timer restarted for a frame: the frame's duration divided by the speed,
\* nothing elapsed.
FreshTimer(frame, speed) ==
    [duration |-> frame.duration \div speed, elapsed |-> 0, finished |-> FALSE,
     times_finished |-> 0]

\* C1: set_animation with the current clip name changes nothing: frame index,
\* timer, dirty flag, stored loop flag and the frame shown are what they were,
\* whatever the loop argument.
C1_SetSameNameIsNoOp ==
    (WasSetAnimation /\ call.name = PreName) =>
        /\ sprite = pre.sprite
        /\ texture_atlas_sprite = pre.texture_atlas_sprite

\* C1 witness: the current name is set again, with the other loop flag, on a
\* sprite that is playing past frame 0 with time elapsed on its timer.
C1_Witness ==
    /\ WasSetAnimation
    /\ call.name = PreName
    /\ call.loop_animation # pre.sprite.loop_animation
    /\ ~pre.sprite.is_dirty
    /\ pre.sprite.current_frame_index > 0
    /\ pre.sprite.timer.elapsed > 0

\* C2: set_animation with another name stores the name, resets the frame index
\* to 0, stores the loop argument and sets dirty.
C2_SetNewNameResets ==
    (WasSetAnimation /\ call.name # PreName) =>
        /\ sprite.current_animation_name = call.name
        /\ sprite.current_frame_index = 0
        /\ sprite.loop_animation = call.loop_animation
        /\ sprite.is_dirty

\* Frozen at the end: the timer of a non-looping clip has expired on the
\* clip's last frame.
Frozen(loaded, s) ==
    /\ HasClip(loaded, s)
    /\ Len(Clip(loaded, s).frames) >= 1
    /\ ~s.is_dirty
    /\ ~s.loop_animation
    /\ s.current_frame_index = Len(Clip(loaded, s).frames) - 1
    /\ s.timer.finished

\* C2 witness: a new name is set on a sprite frozen at the end of a clip, past
\* frame 0, with the loop flag changing.
C2_Witness ==
    /\ WasSetAnimation
    /\ call.name # PreName
    /\ Frozen(aseprites, pre.sprite)
    /\ pre.sprite.current_frame_index > 0
    /\ call.loop_animation # pre.sprite.loop_animation

\* The advance call found a dirty sprite, a loaded sheet and a current clip
\* with at least one frame.
RefreshCase ==
    /\ WasAdvance
    /\ pre.sprite.is_dirty
    /\ HasClip(aseprites, pre.sprite)
    /\ Len(Clip(aseprites, pre.sprite).frames) >= 1

\* C3: an advance call on a dirty sprite whose clip has a frame shows the
\* clip's frame 0, restarts the timer at that frame's duration divided by the
\* speed with nothing elapsed, clears dirty and leaves the frame index alone,
\* whatever the elapsed time of the call.
C3_DirtyRefreshConsumesNoTime ==
    RefreshCase =>
        LET frame0 == Clip(aseprites, pre.sprite).frames[1]
        IN  /\ texture_atlas_sprite.index = frame0.index
            /\ sprite.timer = FreshTimer(frame0, Speed)
            /\ ~sprite.is_dirty
            /\ sprite.current_frame_index = pre.sprite.current_frame_index
            /\ sprite.current_frame_index = 0

\* C3 witness: a refresh in a call whose elapsed time is longer than the whole
\* frame, to a frame other than the one shown before.
C3_Witness ==
    /\ RefreshCase
    /\ call.delta > sprite.timer.duration
    /\ texture_atlas_sprite.index # pre.texture_atlas_sprite.index

\* C4: once frozen at the end, a sprite stays frozen through every call but a
\* set_animation with a new name: frame index, frame shown and the timer's
\* duration, elapsed time and finished flag stay what they were.
C4_FrozenUntilNewClip ==
    (Frozen(aseprites, pre.sprite) /\ ~(WasSetAnimation /\ call.name # PreName)) =>
        /\ Frozen(aseprites, sprite)
        /\ sprite.current_frame_index = pre.sprite.current_frame_index
        /\ texture_atlas_sprite = pre.texture_atlas_sprite
        /\ TimerView(sprite.timer) = TimerView(pre.sprite.timer)

\* C4 witness: an advance call with time elapsed on a sprite frozen at the
\* end of a clip of several frames, not the first call after the freeze.
C4_Witness ==
    /\ WasAdvance
    /\ call.delta > 0
    /\ Frozen(aseprites, pre.sprite)
    /\ pre.sprite.current_frame_index > 0
    /\ pre.sprite.timer.times_finished = 0

\* The advance call found a loaded sheet and a sprite that is not dirty.
TickCase ==
    /\ WasAdvance
    /\ aseprites # None
    /\ ~pre.sprite.is_dirty

\* The timer expires in the call: it had not finished, and the elapsed time
\* of the call reaches what was left of it.
Expires ==
    /\ ~pre.sprite.timer.finished
    /\ pre.sprite.timer.elapsed + call.delta >= pre.sprite.timer.duration

\* C5: when the timer expires in an advance call on a sprite that is not dirty
\* and whose clip has frames, the frame index moves one step: to index + 1
\* before the last index, to 0 from the last index of a looping clip; the step
\* shows that frame and restarts the timer at its duration divided by the
\* speed, with nothing elapsed.  When the timer does not expire, frame index
\* and frame shown stay.
C5_OneStepPerExpiry ==
    TickCase =>
        /\ (Expires /\ HasClip(aseprites, pre.sprite)
              /\ Len(Clip(aseprites, pre.sprite).frames) >= 1) =>
             LET frames == Clip(aseprites, pre.sprite).frames
                 i == pre.sprite.current_frame_index
                 next == IF i # Len(frames) - 1 THEN i + 1 ELSE 0
             IN  (i # Len(frames) - 1 \/ pre.sprite.loop_animation) =>
                     /\ sprite.current_frame_index = next
                     /\ next + 1 \in DOMAIN frames
                     /\ texture_atlas_sprite.index = frames[next + 1].index
                     /\ sprite.timer = FreshTimer(frames[next + 1], Speed)
        /\ ~Expires =>
             /\ sprite.current_frame_index = pre.sprite.current_frame_index
             /\ texture_atlas_sprite = pre.texture_atlas_sprite

\* C5 witness: the timer expires with time to spare on the last frame of a
\* looping clip of several frames.
C5_Witness ==
    /\ TickCase
    /\ Expires
    /\ pre.sprite.timer.elapsed + call.delta > pre.sprite.timer.duration
    /\ HasClip(aseprites, pre.sprite)
    /\ Len(Clip(aseprites, pre.sprite).frames) >= 2
    /\ pre.sprite.current_frame_index = Len(Clip(aseprites, pre.sprite).frames) - 1
    /\ pre.sprite.loop_animation
    /\ sprite.current_frame_index = 0

\* C6: with a current clip of zero frames every advance call completes and
\* leaves frame index and frame shown alone.
C6_EmptyClipIsNoOp ==
    (WasAdvance /\ HasClip(aseprites, pre.sprite)
       /\ Len(Clip(aseprites, pre.sprite).frames) = 0) =>
        /\ ~panicked
        /\ sprite.current_frame_index = pre.sprite.current_frame_index
        /\ texture_atlas_sprite = pre.texture_atlas_sprite

\* The current clip has three frames of 0.1 s each.
ThreeFrameClip ==
    /\ HasClip(aseprites, sprite)
    /\ Len(Clip(aseprites, sprite).frames) = 3
    /\ \A i \in 1..3 : Clip(aseprites, sprite).frames[i].duration = Second \div 10

\* C7: on a clip of three frames of 0.1 s at speed 2, the refresh of the dirty
\* sprite leaves the frame index at 0 with nothing elapsed; three advance
\* calls of 0.05 s then take it to 1, to 2, and to 0 if the clip loops or
\* leave it at 2 if it does not.
C7_ThreeTickScenario ==
    (ThreeFrameClip /\ sprite.speed = 2) =>
        /\ run = 1 => (sprite.current_frame_index = 0 /\ sprite.timer.elapsed = 0)
        /\ run = 2 => sprite.current_frame_index = 1
        /\ run = 3 => sprite.current_frame_index = 2
        /\ run = 4 => sprite.current_frame_index = IF sprite.loop_animation THEN 0 ELSE 2

\* C7 witness: the third tick of the scenario on the clip played once.
C7_Witness ==
    /\ ThreeFrameClip
    /\ run = 4
    /\ ~sprite.loop_animation
    /\ sprite.current_frame_index = 2

\* C8 as stated: the sprite is dirty at frame index 0 after construction and
\* after any set_animation call, whatever name the call passes.
C8_DirtyAfterAnySet ==
    (call.op = "new" \/ WasSetAnimation) =>
        (sprite.is_dirty /\ sprite.current_frame_index = 0)

\* C8 amended: the sprite is dirty at frame index 0 after construction and
\* after a set_animation call with a name other than the current one; after a
\* call with the current name it is dirty, and at frame index 0, only if it
\* was so before.
C8_DirtyAfterNewName ==
    /\ (call.op = "new" \/ (WasSetAnimation /\ call.name # PreName)) =>
          (sprite.is_dirty /\ sprite.current_frame_index = 0)
    /\ (WasSetAnimation /\ call.name = PreName) =>
          /\ sprite.is_dirty = pre.sprite.is_dirty
          /\ sprite.current_frame_index = pre.sprite.current_frame_index

\* C8 witness: a new name is set on a sprite playing the middle frame of a
\* clip, its timer still running.
C8_Witness ==
    /\ WasSetAnimation
    /\ call.name # PreName
    /\ ~pre.sprite.is_dirty
    /\ pre.sprite.current_frame_index = 1
    /\ ~pre.sprite.timer.finished
    /\ pre.sprite.timer.elapsed > 0

\* ---------------------------------------------------------- claims: parse

\* The number a name of the pool carries before its extension.
SuffixValue(name) ==
    CASE name = Name0 -> 0 [] name = Name1 -> 1 [] name = Name2 -> 2 [] name = Name01 -> 1

\* The name of the export's frame with this value: every frame has its own rect.
NameOfValue(value) == CHOOSE n \in DOMAIN data.frames : data.frames[n] = value

\* C9: the frame list of the loaded sheet is strictly ascending by the number
\* of each frame's name, and every iteration order of data.frames gives that
\* same list.
C9_FrameOrderStrictAndFixed ==
    aseprites # None =>
        LET frames == Unwrap(aseprites).frames
        IN  /\ \A i, j \in DOMAIN frames :
                   i < j => SuffixValue(NameOfValue(frames[i])) < SuffixValue(NameOfValue(frames[j]))
            /\ \A o \in Orderings(DOMAIN data.frames) : SortedFrames(data, o) = frames

\* The tag at position k is the one whose clip the HashMap keeps for its name.
KeptTag(tags, k) == \A j \in DOMAIN tags : tags[j].name = tags[k].name => j <= k

\* C10: the clip of every tag {from, to} over a sheet of N frames holds the
\* frames at the indices i with from <= i <= to and 0 <= i <= N - 1, ascending,
\* each with index i and the duration of sheet frame i in milliseconds divided
\* by 1000; the indices outside the sheet, negative ones too, are left out.
C10_ClipIsClampedRange ==
    aseprites # None =>
        LET sheet == Unwrap(aseprites)
            tags == data.meta.frame_tags
            N == Len(sheet.frames)
        IN  /\ DOMAIN sheet.animations = {tags[k].name : k \in DOMAIN tags}
            /\ \A k \in DOMAIN tags :
                 KeptTag(tags, k) =>
                   LET lo == Max(tags[k].from, 0)
                       hi == Min(tags[k].to, N - 1)
                       clip == sheet.animations[tags[k].name].frames
                   IN  /\ Len(clip) = IF hi >= lo THEN hi - lo + 1 ELSE 0
                       /\ \A m \in DOMAIN clip :
                            /\ clip[m].index = lo + m - 1
                            /\ clip[m].duration * 1000
                                 = sheet.frames[lo + m].duration * Second

\* C10 witness: a tag that starts below 0 and ends past the last frame of a
\* sheet of three frames, and whose clip is the three frames.
C10_Witness ==
    /\ aseprites # None
    /\ Len(Unwrap(aseprites).frames) = 3
    /\ \E k \in DOMAIN data.meta.frame_tags :
         /\ KeptTag(data.meta.frame_tags, k)
         /\ data.meta.frame_tags[k].from < 0
         /\ data.meta.frame_tags[k].to > 2
         /\ Len(Unwrap(aseprites).animations[data.meta.frame_tags[k].name].frames) = 3

\* The name ends in a number and the extension ".aseprite".
HasTrailingNumber(name) ==
    /\ Len(name) >= Len(Ext) + 2
    /\ SubSeq(name, Len(name) - Len(Ext) + 1, Len(name)) = Ext
    /\ name[Len(name) - Len(Ext)] = "."
    /\ name[Len(name) - Len(Ext) - 1] \in Digits

\* The frame of this name is in the sheet's frame order, and with it its rect.
InFrameOrder(sheet, name) ==
    \E i \in DOMAIN sheet.frames :
        /\ sheet.frames[i] = data.frames[name]
        /\ i \in DOMAIN sheet.rects

\* C11: a frame is in the frame order of the loaded sheet if and only if its
\* name has a number right before the extension; the sheet has one rect per
\* frame of the order and the clips hold frames of the order only.
C11_IncludedIffTrailingNumber ==
    aseprites # None =>
        LET sheet == Unwrap(aseprites)
        IN  /\ \A n \in DOMAIN data.frames : InFrameOrder(sheet, n) <=> HasTrailingNumber(n)
            /\ Len(sheet.rects) = Len(sheet.frames)
            /\ \A c \in DOMAIN sheet.animations :
                 \A m \in DOMAIN sheet.animations[c].frames :
                    sheet.animations[c].frames[m].index < Len(sheet.frames)

\* ---------------------------------------------------- claims on level builds

\* The level "Level_0" of the export, an Option, and its layers.
Level0 == Find(ldtk.data.levels, "identifier", "Level_0")

Layers ==
    IF Level0 = None \/ Unwrap(Level0).layer_instances = None THEN <<>>
    ELSE Unwrap(Unwrap(Level0).layer_instances)

\* Ldtk::load has been called.
Built == load_result # "none"

\* A Tiles layer with a tileset uid, and whether a definition has the uid.
TilesWithUid(layer) ==
    layer.layer_instance_type = "Tiles" /\ layer.tileset_def_uid # None

Resolved(layer) ==
    \E i \in DOMAIN ldtk.data.defs.tilesets :
        ldtk.data.defs.tilesets[i].uid = Unwrap(layer.tileset_def_uid)

\* A layer the build has no arm for.
Unsupported(layer) ==
    layer.layer_instance_type # "Entities" /\ ~TilesWithUid(layer)

\* An Enemy without a field "name" that holds a string.
Nameless(entity) ==
    /\ entity.identifier = "Enemy"
    /\ ~\E i \in DOMAIN entity.field_instances :
          /\ entity.field_instances[i].identifier = "name"
          /\ entity.field_instances[i].value # None
          /\ Unwrap(entity.field_instances[i].value).kind = "String"

\* The layer ends the build: it is unsupported, a Tiles layer whose tileset
\* is not found, or holds a nameless enemy.
Stops(layer) ==
    \/ Unsupported(layer)
    \/ TilesWithUid(layer) /\ ~Resolved(layer)
    \/ /\ layer.layer_instance_type = "Entities"
       /\ \E i \in DOMAIN layer.entity_instances : Nameless(layer.entity_instances[i])

\* The event a PlayerStart or Enemy placement stands for: its kind, the
\* string of its field "name", and its position in the world with y up.
EventOf(entity) ==
    [type |-> IF entity.identifier = "PlayerStart" THEN "SpawnPlayer" ELSE "SpawnEnemy",
     name |-> IF entity.identifier = "PlayerStart" THEN ""
              ELSE LET i == CHOOSE i \in DOMAIN entity.field_instances :
                                entity.field_instances[i].identifier = "name"
                   IN  Unwrap(entity.field_instances[i].value).text,
     position |-> <<entity.px[1] + Unwrap(Level0).world_x,
                    (0 - entity.px[2]) - Unwrap(Level0).world_y, 0>>]

\* The events of the first n entities of a layer, in their order.
EventsOfLayer(layer, n) ==
    LET placed == SelectSeq(SubSeq(layer.entity_instances, 1, n),
                            LAMBDA entity : entity.identifier \in {"PlayerStart", "Enemy"})
    IN  [i \in DOMAIN placed |-> EventOf(placed[i])]

\* The events of the first k layers, layer after layer.
RECURSIVE EventsOfLayers(_)
EventsOfLayers(k) ==
    IF k = 0 THEN <<>>
    ELSE EventsOfLayers(k - 1) \o EventsOfLayer(Layers[k], Len(Layers[k].entity_instances))

\* The number of Tiles layers among the first k layers.
TilesLayersBefore(k) == Cardinality({j \in 1..(k - 1) : TilesWithUid(Layers[j])})

\* The scan reaches layer k: no layer before it ends the build.
Reaches(k) == \A j \in 1..(k - 1) : ~Stops(Layers[j])

C13_NamelessEnemyAborts ==
    Built =>
        \A k \in DOMAIN Layers :
            \A i \in DOMAIN Layers[k].entity_instances :
                /\ Layers[k].layer_instance_type = "Entities"
                /\ Nameless(Layers[k].entity_instances[i])
                /\ Reaches(k)
                /\ \A h \in 1..(i - 1) : ~Nameless(Layers[k].entity_instances[h])
                => /\ load_result = "err"
                   /\ events = EventsOfLayers(k - 1) \o EventsOfLayer(Layers[k], i - 1)
                   /\ Len(commands) = TilesLayersBefore(k)
                   /\ reader = 0 /\ spawned = <<>>

\* A nameless enemy comes after a Tiles layer that has been spawned and after
\* an entity whose event has been sent.
C13_Witness ==
    /\ load_result = "err"
    /\ Len(Layers) = 2
    /\ TilesWithUid(Layers[1])
    /\ Len(Layers[2].entity_instances) = 2
    /\ Nameless(Layers[2].entity_instances[2])
    /\ Len(events) = 1
    /\ Len(commands) = 1

\* The actors the consumer spawns for a list of events, in their order.
ActorsOf(ldtk_events) ==
    LET acted == SelectSeq(ldtk_events,
                     LAMBDA event : event.type = "SpawnPlayer" \/ event.name = "test")
    IN  [i \in DOMAIN acted |->
            [actor |-> IF acted[i].type = "SpawnPlayer" THEN "player" ELSE "enemy",
             rigid_body |-> [position |->
                 [pixels |-> <<acted[i].position[1], acted[i].position[2]>>,
                  per |-> RAPIER_SCALE]]]]

\* C14: after a build that succeeds the events are those of the PlayerStart
\* and Enemy placements, one each, layer after layer and within a layer in the
\* order of the entities; entities of other kinds have none.  The consumer has
\* read none of them or all of them, and has acted on them in that order.
C14_EventsInPlacementOrder ==
    load_result = "ok" =>
        /\ events = EventsOfLayers(Len(Layers))
        /\ \/ reader = 0 /\ spawned = <<>>
           \/ reader = Len(events) /\ spawned = ActorsOf(events)

\* A build of two Entities layers has succeeded with the event of an enemy the
\* consumer spawns nothing for and then that of a player start, and the
\* consumer has read them.
C14_Witness ==
    /\ load_result = "ok"
    /\ Len(Layers) = 2
    /\ Layers[1].layer_instance_type = "Entities"
    /\ Layers[2].layer_instance_type = "Entities"
    /\ Len(events) = 2
    /\ events[1].type = "SpawnEnemy" /\ events[1].name = "bat"
    /\ events[2].type = "SpawnPlayer"
    /\ reader = 2
    /\ Len(spawned) = 1

\* The tileset definition a Tiles layer refers to, and the level's offset in
\* the world with y up.
TilesetOf(layer) ==
    Unwrap(Find(ldtk.data.defs.tilesets, "uid", Unwrap(layer.tileset_def_uid)))

LevelOffset == <<Unwrap(Level0).world_x, 0 - Unwrap(Level0).world_y>>

\* The entries of a tileset's custom data that register a polygon for tile id
\* t: those with this tile id and with data.
Registering(tileset, t) ==
    {i \in DOMAIN tileset.custom_data :
        /\ tileset.custom_data[i].tileId = Some(t)
        /\ tileset.custom_data[i].data # None}

\* The local polygon of tile id t in pixels with y up: the last entry counts.
RegisteredPolygon(tileset, t) ==
    LET i == CHOOSE i \in Registering(tileset, t) :
                 \A j \in Registering(tileset, t) : j <= i
        points == Unwrap(tileset.custom_data[i].data)
    IN  [k \in DOMAIN points |->
            <<points[k][1] * tileset.tile_grid_size,
              0 - (points[k][2] * tileset.tile_grid_size)>>]

\* One polygon per tile of the layer whose tile id has a registered polygon,
\* in the order of the tiles: the local polygon with every point moved by the
\* tile's pixel position, y up, and by offset.
PolygonsAt(layer, offset) ==
    LET placed == SelectSeq(layer.grid_tiles,
                      LAMBDA grid_tile : Registering(TilesetOf(layer), grid_tile.t) # {})
    IN  [m \in DOMAIN placed |->
            LET local == RegisteredPolygon(TilesetOf(layer), placed[m].t)
            IN  [k \in DOMAIN local |->
                    <<local[k][1] + placed[m].px[1] + offset[1],
                      (local[k][2] - placed[m].px[2]) + offset[2]>>]]

\* C15 (as stated): for each Tiles layer with a resolved tileset that the
\* build reaches, the list handed to merge_polygons has one polygon per tile
\* whose tile id has a registered polygon, in the order of the tiles, each the
\* local polygon moved by the tile's pixel position plus the level's offset.
C15_PolygonsMovedByTileAndLevel ==
    Built =>
        \A k \in DOMAIN Layers :
            TilesWithUid(Layers[k]) /\ Resolved(Layers[k]) /\ Reaches(k)
            => /\ Len(merge_calls) > TilesLayersBefore(k)
               /\ merge_calls[TilesLayersBefore(k) + 1] = PolygonsAt(Layers[k], LevelOffset)

\* C15 (amended): the polygons are moved by the tile's pixel position only;
\* the level's offset is not in the points but is the position of the layer
\* spawned and of each of its colliders.
C15_PolygonsMovedByTileOnly ==
    Built =>
        \A k \in DOMAIN Layers :
            TilesWithUid(Layers[k]) /\ Resolved(Layers[k]) /\ Reaches(k)
            => /\ Len(merge_calls) > TilesLayersBefore(k)
               /\ merge_calls[TilesLayersBefore(k) + 1] = PolygonsAt(Layers[k], <<0, 0>>)
               /\ Len(commands) > TilesLayersBefore(k) =>
                    LET spawn == commands[TilesLayersBefore(k) + 1]
                        at == [pixels |-> <<LevelOffset[1], LevelOffset[2], 0>>,
                               per |-> RAPIER_SCALE]
                    IN  /\ spawn.collider_position = at
                        /\ \A c \in DOMAIN spawn.collisions :
                               spawn.collisions[c].collider.position = at

\* A layer of three tiles, of which the first and the last have a registered
\* polygon, has been built in a level away from the world's origin: the two
\* polygons were handed over, the first one with its first point at the tile.
C15_Witness ==
    /\ load_result = "ok"
    /\ Len(Layers) = 1
    /\ TilesWithUid(Layers[1]) /\ Resolved(Layers[1])
    /\ Len(Layers[1].grid_tiles) = 3
    /\ Unwrap(Level0).world_x = 256
    /\ Len(merge_calls) = 1
    /\ Len(merge_calls[1]) = 2
    /\ merge_calls[1][1][1] = <<32, -32>>
    /\ Len(commands) = 1
    /\ Len(commands[1].collisions) = 2

\* No tile of the layer has a tile id with a registered polygon.
WithoutPolygons(layer) ==
    \A i \in DOMAIN layer.grid_tiles :
        Registering(TilesetOf(layer), layer.grid_tiles[i].t) = {}

\* C16: for a Tiles layer with a resolved tileset that the build reaches and
\* in which no tile has a registered polygon, merge_polygons gets no polygon
\* and returns None; the layer is spawned without collider and without debug
\* geometry and with one sprite per tile, and the layer raises no error: when
\* it is the last layer the build succeeds.
C16_EmptyMergeInput ==
    Built =>
        \A k \in DOMAIN Layers :
            /\ TilesWithUid(Layers[k]) /\ Resolved(Layers[k]) /\ Reaches(k)
            /\ WithoutPolygons(Layers[k])
            => /\ Len(merge_calls) > TilesLayersBefore(k)
               /\ merge_calls[TilesLayersBefore(k) + 1] = <<>>
               /\ MergePolygons(merge_calls[TilesLayersBefore(k) + 1]) = None
               /\ Len(commands) > TilesLayersBefore(k)
               /\ LET spawn == commands[TilesLayersBefore(k) + 1]
                  IN  /\ spawn.collisions = <<>>
                      /\ Len(spawn.tiles) = Len(Layers[k].grid_tiles)
                      /\ \A i \in DOMAIN spawn.tiles :
                             spawn.tiles[i].index = Layers[k].grid_tiles[i].t
               /\ k = Len(Layers) => load_result = "ok"

\* A layer of two tiles, neither with a registered polygon, has been built.
C16_Witness ==
    /\ load_result = "ok"
    /\ Len(Layers) = 1
    /\ TilesWithUid(Layers[1]) /\ Resolved(Layers[1])
    /\ Len(Layers[1].grid_tiles) = 2
    /\ WithoutPolygons(Layers[1])
    /\ merge_calls = <<(<<>>)>>
    /\ Len(commands) = 1
    /\ Len(commands[1].tiles) = 2
    /\ commands[1].collisions = <<>>

\* A tile of the layer has a registered polygon without points.
Degenerate(layer) ==
    \E i \in DOMAIN layer.grid_tiles :
        /\ Registering(TilesetOf(layer), layer.grid_tiles[i].t) # {}
        /\ RegisteredPolygon(TilesetOf(layer), layer.grid_tiles[i].t) = <<>>

\* C17: when a tile's registered polygon has no point, so that a merged
\* outline has none, the build completes without error or abort and the layer
\* is spawned with no collider for that outline.
C17_DegenerateIsSoftFailure ==
    Built =>
        \A k \in DOMAIN Layers :
            /\ TilesWithUid(Layers[k]) /\ Resolved(Layers[k]) /\ Reaches(k)
            /\ Degenerate(Layers[k])
            /\ k = Len(Layers)
            => /\ load_result = "ok"
               /\ Len(commands) = TilesLayersBefore(k) + 1
               /\ \A c \in DOMAIN commands[TilesLayersBefore(k) + 1].collisions :
                      commands[TilesLayersBefore(k) + 1].collisions[c].geometry.points.len # 0

\* The outlines a spawned layer has colliders for.
Outlines(spawn) ==
    {spawn.collisions[c].geometry.points : c \in DOMAIN spawn.collisions}

\* The polygons of a list.
PolygonSet(polygons) == {polygons[i] : i \in DOMAIN polygons}

PolygonCells(layer) ==
    {<<layer.grid_tiles[i].px[1] \div GridSize, layer.grid_tiles[i].px[2] \div GridSize>> :
        i \in {h \in DOMAIN layer.grid_tiles :
                  Registering(TilesetOf(layer), layer.grid_tiles[h].t) # {}}}

\* C19: for a layer that is spawned and whose tiles have full-tile polygons,
\* the outlines are one per connected part of the tiles' cells and no more:
\* every part lies inside exactly one outline, every outline surrounds tiles,
\* and a region the tiles enclose lies inside the outline around them and has
\* no outline of its own.
C19_ExteriorRingsOnly ==
    Built =>
        \A k \in DOMAIN Layers :
            /\ TilesWithUid(Layers[k]) /\ Resolved(Layers[k]) /\ Reaches(k)
            /\ ~Degenerate(Layers[k])
            /\ PolygonCells(Layers[k]) # {}
            => /\ Len(commands) > TilesLayersBefore(k)
               /\ LET spawn == commands[TilesLayersBefore(k) + 1]
                      parts == Components(PolygonCells(Layers[k]))
                  IN  /\ Len(spawn.collisions) = Cardinality(parts)
                      /\ Cardinality(Outlines(spawn)) = Cardinality(parts)
                      /\ \A part \in parts :
                            \E outline \in Outlines(spawn) :
                                outline.inside = part \cup UNION Holes(part)
                      /\ \A outline \in Outlines(spawn) :
                            outline.inside \cap PolygonCells(Layers[k]) # {}

\* Eight tiles around a free cell have been built: the layer has one outline,
\* and the free cell lies inside it.
C19_Witness ==
    /\ load_result = "ok"
    /\ Len(Layers) = 1
    /\ Len(Layers[1].grid_tiles) = 8
    /\ <<1, 1>> \notin PolygonCells(Layers[1])
    /\ Len(commands) = 1
    /\ Len(commands[1].collisions) = 1
    /\ <<1, 1>> \in commands[1].collisions[1].geometry.points.inside
    /\ Cardinality(commands[1].collisions[1].geometry.points.inside) = 9

\* ------------------------------------------------- claims on the frame index

\* C20: whenever the current clip of the sprite is a clip of the loaded sheet
\* with at least one frame, the current frame index is a position of that
\* clip, 0 <= index <= len - 1; the frame index shown is the position of a
\* frame of the sheet's frame list, and when a pass of the system has changed
\* it, it is the index of the clip's frame at the current frame index.
C20_FrameIndexInRange ==
    /\ HasClip(aseprites, sprite) /\ Len(Clip(aseprites, sprite).frames) >= 1
       => /\ 0 <= sprite.current_frame_index
          /\ sprite.current_frame_index <= Len(Clip(aseprites, sprite).frames) - 1
    /\ aseprites # None
       => /\ 0 <= texture_atlas_sprite.index
          /\ texture_atlas_sprite.index <= Len(Unwrap(aseprites).frames) - 1
    /\ call.op = "advance" /\ texture_atlas_sprite.index # pre.texture_atlas_sprite.index
       => /\ HasClip(aseprites, sprite)
          /\ sprite.current_frame_index < Len(Clip(aseprites, sprite).frames)
          /\ texture_atlas_sprite.index =
                 Clip(aseprites, sprite).frames[sprite.current_frame_index + 1].index

\* A pass of the system has stepped the sprite to the last frame of a clip of
\* three frames and shows that frame, the last of the sheet.
C20_Witness ==
    /\ call.op = "advance"
    /\ HasClip(aseprites, sprite)
    /\ Len(Clip(aseprites, sprite).frames) = 3
    /\ pre.sprite.current_frame_index = 1
    /\ sprite.current_frame_index = 2
    /\ pre.texture_atlas_sprite.index = 1
    /\ texture_atlas_sprite.index = Len(Unwrap(aseprites).frames) - 1

\* ------------------------------------------------ claims on unsupported layers

\* C21: a build succeeds only if every layer of the level is an Entities layer
\* or a Tiles layer with a tileset uid that a tileset definition has.  When
\* the scan reaches a Tiles layer without tileset uid or a layer of another
\* type, the build ends there without success: the events and spawns of the
\* layers before it are all there is, and no later layer is processed.
C21_SuccessOnlyForSupportedLayers ==
    /\ load_result = "ok"
       => /\ Level0 # None /\ Unwrap(Level0).layer_instances # None
          /\ \A k \in DOMAIN Layers :
                \/ Layers[k].layer_instance_type = "Entities"
                \/ TilesWithUid(Layers[k]) /\ Resolved(Layers[k])
    /\ Built
       => \A k \in DOMAIN Layers :
             /\ Unsupported(Layers[k]) => load_result # "ok"
             /\ Unsupported(Layers[k]) /\ Reaches(k)
                => /\ load_result = "panic"
                   /\ events = EventsOfLayers(k - 1)
                   /\ Len(commands) = TilesLayersBefore(k)
                   /\ Len(merge_calls) = TilesLayersBefore(k)

\* A Tiles layer without tileset uid or a layer of another type comes after a
\* Tiles layer that has been spawned and before a layer with a player start:
\* the build has panicked and has sent no event.
C21_Witness ==
    /\ load_result = "panic"
    /\ Len(Layers) = 3
    /\ TilesWithUid(Layers[1]) /\ Resolved(Layers[1])
    /\ Unsupported(Layers[2])
    /\ Layers[3].layer_instance_type = "Entities"
    /\ Len(Layers[3].entity_instances) = 1
    /\ Layers[3].entity_instances[1].identifier = "PlayerStart"
    /\ Len(commands) = 1
    /\ events = <<>>

\* ------------------------------------------- claims on the sheet not loaded

\* C22: while the sheet is not loaded an advance call changes nothing, so
\* that the sprite is still dirty, at frame index 0, with the timer and the
\* frame shown of its construction, and it is so when the sheet gets loaded;
\* set_animation keeps a dirty sprite dirty; and an advance call that finds
\* the sheet loaded and the sprite dirty takes the refresh: it clears dirty
\* without a tick of the timer, at frame index 0, and shows frame 0 of the
\* current clip when that clip has a frame.
C22_NoAdvanceBeforeLoad ==
    /\ WasAdvance /\ aseprites = None
       => /\ sprite = pre.sprite
          /\ texture_atlas_sprite = pre.texture_atlas_sprite
          /\ ~panicked
    /\ aseprites = None \/ call.op = "load"
       => /\ sprite.is_dirty
          /\ sprite.current_frame_index = 0
          /\ sprite.timer = TimerNew
          /\ texture_atlas_sprite = [index |-> 0]
    /\ WasSetAnimation /\ pre.sprite.is_dirty
       => sprite.is_dirty /\ sprite.current_frame_index = 0
    /\ WasAdvance /\ aseprites # None /\ pre.sprite.is_dirty
       => /\ ~sprite.is_dirty
          /\ sprite.current_frame_index = 0
          /\ IF HasClip(aseprites, pre.sprite) /\ Len(Clip(aseprites, pre.sprite).frames) >= 1
             THEN /\ texture_atlas_sprite.index = Clip(aseprites, pre.sprite).frames[1].index
                  /\ sprite.timer.elapsed = 0
             ELSE /\ texture_atlas_sprite = pre.texture_atlas_sprite
                  /\ sprite.timer = pre.sprite.timer

\* An advance call with time elapsed has found the sheet not loaded and a
\* sprite with a clip name set.
C22_Witness ==
    /\ WasAdvance
    /\ aseprites = None
    /\ call.delta > 0
    /\ pre.sprite.current_animation_name = "walk"
    /\ sprite.is_dirty
    /\ sprite.timer = TimerNew

\* ------------------------------------------- claims on a name without frames

\* The advance call found the sheet loaded and a current name that is no clip
\* of the sheet or a clip without frames.
NoFrameCase ==
    /\ WasAdvance
    /\ aseprites # None
    /\ ~(HasClip(aseprites, pre.sprite) /\ Len(Clip(aseprites, pre.sprite).frames) >= 1)

\* C23: with the sheet loaded and a current name that is no clip of the sheet
\* or a clip without frames, an advance call on a dirty sprite clears dirty
\* and leaves frame shown, frame index and timer alone; an advance call on a
\* sprite that is not dirty leaves it not dirty and refreshes no frame: the
\* frame shown stays and the timer is not restarted.  set_animation with the
\* current name changes nothing, so this lasts until another name is set.
C23_NoRefreshWithoutFrames ==
    /\ NoFrameCase /\ pre.sprite.is_dirty
       => /\ ~sprite.is_dirty
          /\ texture_atlas_sprite = pre.texture_atlas_sprite
          /\ sprite.current_frame_index = pre.sprite.current_frame_index
          /\ sprite.timer = pre.sprite.timer
          /\ ~panicked
    /\ NoFrameCase /\ ~pre.sprite.is_dirty
       => /\ ~sprite.is_dirty
          /\ texture_atlas_sprite = pre.texture_atlas_sprite
          /\ sprite.timer.duration = pre.sprite.timer.duration
          /\ sprite.timer.elapsed >= pre.sprite.timer.elapsed
    /\ WasSetAnimation /\ call.name = PreName
       => sprite = pre.sprite /\ texture_atlas_sprite = pre.texture_atlas_sprite

\* An advance call has cleared dirty on a sprite whose current clip has no
\* frame, with the timer of the clip played before still running and a frame
\* of that clip still shown.
C23_Witness ==
    /\ NoFrameCase
    /\ pre.sprite.is_dirty
    /\ HasClip(aseprites, pre.sprite)
    /\ Len(Clip(aseprites, pre.sprite).frames) = 0
    /\ call.delta > 0
    /\ pre.sprite.timer.elapsed > 0
    /\ texture_atlas_sprite.index > 0
    /\ ~sprite.is_dirty

====
